---- MODULE Spec2Model ----
(***************************************************************************)
(* A model of autopxe: the session coordinator Pxe.run (autopxe/__init__), *)
(* the scoped resources it stacks (distributions.unpack, setup_iface,      *)
(* masquerade / call_iptables, Preseeder) and the DnsMasq supervisor.      *)
(*                                                                         *)
(* Python's `with` statement and exception propagation are modelled by a   *)
(* program counter `pc` and the exception in flight `exc`: a scope's exit  *)
(* code runs with `exc` set when an exception unwinds through it.          *)
(***************************************************************************)
EXTENDS Integers, Sequences, FiniteSets, TLC

\* ------------------------------------------------------------------ bounds
\* Polling iterations of the monitoring loop that the model follows.
MaxIter == 2
\* Failures of external primitives (netlink, iptables, filesystem) per run.
MaxFail == 2
\* KeyboardInterrupts delivered per run.
MaxInterrupt == 1
\* Nesting depth of setup_iface scopes in the interface specification.
MaxDepth == 3
\* Launches of one DnsMasq instance followed by the supervisor specification.
MaxLaunch == 2
MaxLog == 4
MaxRunLog == 2
MaxRangeSize == 20
MaxTuple == 2
MaxList == 2

\* ------------------------------------------------------- program constants
\* masquerade() stacks three call_iptables scopes.
NumRules == 3
Rules == 1..NumRules

\* Pxe.dhcp_range_size, when not given.
DefaultRangeSize == 20

\* Addresses an interface can carry; ServerAddr is Pxe.server_address.
ServerAddr == "server"
Addrs == {ServerAddr, "other"}

\* Exit statuses of the child: chosen by itself, or death by SIGTERM.
OwnExitStatus == {"exit0", "exit2"}
TermStatus == "sigterm"

NoExc == [site |-> "none", k |-> 0]
Exc(site, k) == [site |-> site, k |-> k]
KeyboardInterrupt == Exc("KeyboardInterrupt", 0)

Ev(ev, what, k) == [ev |-> ev, what |-> what, k |-> k]

VARIABLES
    pc,             \* position of the thread executing Pxe.run
    exc,            \* exception propagating through run's scopes
    errors,         \* every exception raised during the run, in order
    must_stop,      \* Pxe.must_stop
    preseed_file,   \* whether Pxe.preseed_file is set
    masquerade_iface, \* Pxe.masquerade_iface: an interface name, or "None"
    iters,          \* iterations of the monitoring loop begun
    nfail,          \* primitive failures so far
    nintr,          \* interrupts delivered so far
    ifaddrs,        \* addresses on the PXE interface (kernel state)
    ifup,           \* whether the PXE interface is administratively up
    host0,          \* host state before the session: addresses and rules
    address_exists, \* setup_iface's local variable
    rules,          \* installed copies of each masquerade rule (kernel state)
    k,              \* index of the call_iptables scope being entered / exited
    unpackdir,      \* the temporary directory of Distribution.unpack
    preseeder,      \* Preseeder: temporary directory, HTTP server, thread
    dnsmasq,        \* the DnsMasq instance and its child process
    uplink,         \* masquerade's local iface: the one its rules name
    logfile,        \* the child's log file, the handle's position, LOG
    status,         \* the exit status logged at the end of run
    trace,          \* acquisition and release events, in order
    scopes,         \* nested setup_iface scopes (interface specification)
    lastop          \* the last operation applied to a lone component

vars == <<pc, exc, errors, must_stop, preseed_file, masquerade_iface, iters,
          nfail, nintr, ifaddrs, ifup, host0, address_exists, rules, k,
          unpackdir, preseeder, dnsmasq, uplink, logfile, status, trace,
          scopes, lastop>>

\* ------------------------------------------------ networking.setup_iface
\* The part of setup_iface before its yield.  outcome is what netlink does:
\* "ok", "add_error" (addr add fails, not EEXIST), "up_error" (link set fails).
\* An address already present makes addr add report EEXIST.
SetupIfaceEnter(addrs, a, outcome) ==
    IF outcome = "add_error"
    THEN [raised |-> TRUE, addrs |-> addrs, address_exists |-> FALSE,
          up |-> FALSE]
    ELSE [raised |-> outcome = "up_error",
          addrs |-> addrs \cup {a},
          address_exists |-> a \in addrs,
          up |-> outcome # "up_error"]

\* An exit that forgets address_exists and deletes the address regardless.
SetupIfaceExitAlwaysDeletes(addrs, a, addrExists, raising, delOk) ==
    IF raising
    THEN [addrs |-> addrs, issued |-> FALSE, failed |-> FALSE]
    ELSE IF delOk /\ a \in addrs
         THEN [addrs |-> addrs \ {a}, issued |-> TRUE, failed |-> FALSE]
         ELSE [addrs |-> addrs, issued |-> TRUE, failed |-> TRUE]

\* The part of setup_iface after its yield.  The yield is not inside a
\* try/finally: an exception thrown into the generator at the yield leaves
\* it at once, so the delete runs only when the body completed normally.
\* delOk is whether the kernel accepts the delete.
SetupIfaceExit(addrs, a, addrExists, raising, delOk) ==
    IF raising \/ addrExists
    THEN [addrs |-> addrs, issued |-> FALSE, failed |-> FALSE]
    ELSE IF delOk /\ a \in addrs
         THEN [addrs |-> addrs \ {a}, issued |-> TRUE, failed |-> FALSE]
         ELSE [addrs |-> addrs, issued |-> TRUE, failed |-> TRUE]

\* --------------------------------------------------- iptables.call_iptables
\* check_call(iptables --append ...): appends one copy of the rule.
IptablesAppend(rs, r, ok) ==
    IF ok THEN [rs EXCEPT ![r] = @ + 1] ELSE rs

\* check_call(iptables --delete ...): removes one copy; fails when the
\* chain holds no matching rule.
IptablesDeleteOk(rs, r, ok) == ok /\ rs[r] > 0

IptablesDelete(rs, r, ok) ==
    IF IptablesDeleteOk(rs, r, ok) THEN [rs EXCEPT ![r] = @ - 1] ELSE rs

\* ------------------------------------------------------------ dnsmasq.DnsMasq
\* DnsMasq.__post_init__, and no child process.
DnsMasqInit ==
    [process |-> "None", returncode |-> "None", workdir |-> "None",
     logs |-> "None", child |-> "none", exitstatus |-> "None",
     launches |-> 0, terms |-> 0, orphans |-> 0,
     atclose |-> "None", atcleanup |-> "None"]

\* Popen.poll(): reaps the child if it has exited and caches its status.
Poll(d) ==
    IF d.child = "exited"
    THEN [d EXCEPT !.child = "reaped", !.returncode = d.exitstatus]
    ELSE d

\* DnsMasq.running (its effect on the instance; its value is DnsMasqRunning).
DnsMasqRunningPoll(d) == IF d.process = "None" THEN d ELSE Poll(d)

DnsMasqRunning(d) ==
    d.process # "None" /\ DnsMasqRunningPoll(d).returncode = "None"

\* A stop() that polls but neither signals the child nor waits for it.
DnsMasqStopNoWait(d) == Poll(d)

\* A terminate() that signals whenever returncode is still None, without
\* polling first (Popen.send_signal before Python 3.9).
PopenTerminateBlind(d) ==
    IF d.returncode # "None" THEN d
    ELSE [d EXCEPT !.terms = @ + 1,
                   !.child = IF @ = "running" THEN "exited" ELSE @,
                   !.exitstatus = IF d.child = "running" THEN TermStatus ELSE @]

\* self.process.terminate(): Popen.send_signal polls, skips a child known to
\* have died, and otherwise sends SIGTERM, on which the child exits.
PopenTerminate(d) ==
    LET p == Poll(d)
    IN  IF p.returncode # "None" THEN p
        ELSE [p EXCEPT !.terms = @ + 1, !.child = "exited",
                       !.exitstatus = TermStatus]

\* self.process.wait(), once the child has exited: reaps it.
PopenWait(d) ==
    [d EXCEPT !.child = "reaped", !.returncode = d.exitstatus]

\* DnsMasq.stop() on an instance that has a process: terminate and wait
\* only if poll() says the child has not exited.
DnsMasqStop(d) ==
    LET p == Poll(d)
    IN  IF p.returncode = "None"
        THEN PopenWait(PopenTerminate(p))
        ELSE p

\* DnsMasq.__enter__.  outcome names the step that fails, or "ok".
DnsMasqEnterOutcomes == {"ok", "mkdtemp_fail", "touch_fail", "spawn_fail",
                         "open_fail"}

DnsMasqEnter(d, outcome) ==
    IF outcome = "mkdtemp_fail" THEN d
    ELSE IF outcome \in {"touch_fail", "spawn_fail"}
    THEN [d EXCEPT !.workdir = "exists", !.atcleanup = "None"]
    ELSE [d EXCEPT !.workdir = "exists",
                   !.atclose = IF outcome = "ok" THEN "None" ELSE @,
                   !.atcleanup = "None",
                   !.process = "Popen",
                   !.returncode = "None",
                   !.child = "running",
                   !.exitstatus = "None",
                   !.launches = @ + 1,
                   !.orphans = @ + (IF d.child = "running" THEN 1 ELSE 0),
                   !.logs = IF outcome = "ok" THEN "open" ELSE @]

\* self.logs.close().  atclose keeps what the child was when the handle of
\* this launch was closed.
LogsClose(d) ==
    IF d.logs = "open"
    THEN [d EXCEPT !.logs = "closed", !.atclose = d.child]
    ELSE d

\* self.workdir.cleanup(); ok is whether the removal succeeds.  atcleanup
\* keeps what the child and the handle were when the directory was removed.
WorkdirCleanup(d, ok) ==
    IF d.workdir = "exists" /\ ok
    THEN [d EXCEPT !.workdir = "removed",
                   !.atcleanup = [child |-> d.child, logs |-> d.logs]]
    ELSE d

\* A teardown that removes the directory before it closes the handle.
DnsMasqExitCleanupFirst(d, cleanupOk) ==
    LogsClose(WorkdirCleanup(DnsMasqStop(d), cleanupOk))

\* DnsMasq.__exit__ on an instance that has a process and a log handle:
\* stop(), logs.close(), workdir.cleanup().  cleanupOk is whether the
\* directory removal succeeds.
DnsMasqExit(d, cleanupOk) ==
    WorkdirCleanup(LogsClose(DnsMasqStop(d)), cleanupOk)

\* ------------------------------------------------------- preseed.Preseeder
PreseederInit == [td |-> "None", server |-> "None", thread |-> "None"]

\* Preseeder.__enter__.  outcome: "ok", "bind_fail" (ThreadingHTTPServer
\* cannot bind) or "copy_fail" (copyfile fails; only with a preseed file).
PreseederEnter(p, outcome) ==
    IF outcome = "bind_fail" THEN [p EXCEPT !.td = "exists"]
    ELSE IF outcome = "copy_fail"
    THEN [p EXCEPT !.td = "exists", !.server = "bound"]
    ELSE [td |-> "exists", server |-> "serving", thread |-> "started"]

\* Preseeder.__exit__: server.shutdown(), server_thread.join(),
\* TemporaryDirectory.__exit__ (which may fail to remove the directory).
PreseederExit(p, cleanupOk) ==
    [td |-> IF cleanupOk THEN "removed" ELSE p.td,
     server |-> "shutdown", thread |-> "joined"]

\* ------------------------------------------------------------ initial state
\* The host before the session: the PXE interface may already carry the
\* server address, and the chains may already hold a copy of the rules.
\* What Pxe.masquerade_iface may be: unset, the interface of the default
\* route (the command line's default), or another one (-m NAME).
MasqueradeIfaces == {"None", "eth0", "wlan0"}

HostInit ==
    /\ ifaddrs \in SUBSET {ServerAddr}
    /\ ifup = FALSE
    /\ \E n \in {0, 1} : rules = [r \in Rules |-> n]
    /\ host0 = [addrs |-> ifaddrs, rules |-> rules,
                default_iface |-> "eth0"]

\* The log file of a launch: what the child has written, how far the
\* handle has read, and the lines handed to LOG.info.
LogFileInit == [text |-> <<>>, pos |-> 0, forwarded |-> <<>>]

\* The characters the child writes: a letter, a blank, a line terminator.
LogChars == {"a", " ", "\n"}
Whitespace == {" ", "\n"}

\* The index of the first line terminator of data, or 0.
FirstNewline(data) ==
    IF \E i \in 1..Len(data) : data[i] = "\n"
    THEN CHOOSE i \in 1..Len(data) :
             data[i] = "\n" /\ \A j \in 1..(i - 1) : data[j] # "\n"
    ELSE 0

\* file.readlines() on what lies between the handle's position and the end
\* of the file: every line with its terminator, and the rest, if any, as a
\* last line without one.
RECURSIVE ReadLines(_)
ReadLines(data) ==
    IF data = <<>> THEN <<>>
    ELSE LET i == FirstNewline(data)
         IN  IF i = 0 THEN <<data>>
             ELSE <<SubSeq(data, 1, i)>>
                      \o ReadLines(SubSeq(data, i + 1, Len(data)))

\* str.strip
RECURSIVE Strip(_)
Strip(line) ==
    IF line = <<>> THEN line
    ELSE IF line[1] \in Whitespace THEN Strip(Tail(line))
    ELSE IF line[Len(line)] \in Whitespace
    THEN Strip(SubSeq(line, 1, Len(line) - 1))
    ELSE line

\* filter(None, map(str.strip, lines))
NonEmpty(line) == line # <<>>
RECURSIVE MapStrip(_)
MapStrip(lines) ==
    IF lines = <<>> THEN <<>>
    ELSE <<Strip(Head(lines))>> \o MapStrip(Tail(lines))
StrippedNonEmpty(lines) == SelectSeq(MapStrip(lines), NonEmpty)

\* DnsMasq.read_logs() on an open handle: everything up to the end of the
\* file is read and every non-blank stripped line goes to LOG.info.
ReadLogs(l) ==
    [l EXCEPT !.pos = Len(l.text),
              !.forwarded = @ \o StrippedNonEmpty(
                  ReadLines(SubSeq(l.text, l.pos + 1, Len(l.text))))]

Quiet ==
    /\ exc = NoExc
    /\ errors = <<>>
    /\ must_stop = FALSE
    /\ iters = 0
    /\ nfail = 0
    /\ nintr = 0
    /\ address_exists = FALSE
    /\ k = 0
    /\ unpackdir = "None"
    /\ preseeder = PreseederInit
    /\ dnsmasq = DnsMasqInit
    /\ uplink = "None"
    /\ logfile = LogFileInit
    /\ status = "unset"
    /\ trace = <<>>
    /\ scopes = <<>>
    /\ lastop = [op |-> "none"]

\* Pxe(...) constructed, run() about to be called.
Init ==
    /\ pc = "unpack"
    /\ preseed_file \in BOOLEAN
    /\ masquerade_iface \in MasqueradeIfaces
    /\ HostInit
    /\ Quiet

\* ------------------------------------------------------------------ helpers
session == <<must_stop, preseed_file, masquerade_iface>>
ifaceVars == <<ifaddrs, ifup, address_exists>>
loneVars == <<scopes, lastop, host0, uplink, logfile>>

\* Whether a primitive may still fail, and the accounting of a failure.
CanFail == nfail < MaxFail
Outcome(ok) == nfail' = IF ok THEN nfail ELSE nfail + 1
Oks == IF CanFail THEN BOOLEAN ELSE {TRUE}

\* An exception is raised: it replaces the one in flight (which Python keeps
\* only as the new one's __context__).
Raise(e) == /\ exc' = e
            /\ errors' = Append(errors, e)
NoRaise == UNCHANGED <<exc, errors>>

Log(e) == trace' = Append(trace, e)

\* ------------------------------------------------------------------ Pxe.run
\* distribution.unpack().__enter__: the temporary directory is created and
\* the archive extracted into it; if that fails the directory is removed by
\* unpack's own with statement and run raises with no scope entered.
Unpack ==
    /\ pc = "unpack"
    /\ \E ok \in Oks :
        /\ Outcome(ok)
        /\ IF ok
           THEN /\ unpackdir' = "exists"
                /\ Log(Ev("enter", "unpack", 0))
                /\ NoRaise
                /\ pc' = "iface"
           ELSE /\ unpackdir' = "removed"
                /\ Raise(Exc("unpack", 0))
                /\ UNCHANGED trace
                /\ pc' = "done"
    /\ UNCHANGED <<session, iters, nintr, ifaceVars, rules, k, preseeder,
                   dnsmasq, status, loneVars>>

\* setup_iface(...).__enter__
SetupIface ==
    /\ pc = "iface"
    /\ \E outcome \in (IF CanFail THEN {"ok", "add_error", "up_error"}
                                  ELSE {"ok"}) :
        LET r == SetupIfaceEnter(ifaddrs, ServerAddr, outcome)
        IN  /\ Outcome(outcome = "ok")
            /\ ifaddrs' = r.addrs
            /\ ifup' = (ifup \/ r.up)
            /\ address_exists' = r.address_exists
            /\ IF r.raised
               THEN /\ Raise(Exc(outcome, 0))
                    /\ UNCHANGED trace
                    /\ pc' = "unpack_exit"
               ELSE /\ NoRaise
                    /\ Log(Ev("enter", "iface", 0))
                    /\ pc' = "masq"
    /\ UNCHANGED <<session, iters, nintr, rules, k, unpackdir, preseeder,
                   dnsmasq, status, loneVars>>

\* masquerade().__enter__, up to its with statement: get_default_iface().
\* The interface its rules will name is the one of the default route; it
\* takes no argument, and Pxe.masquerade_iface is not read.
Masquerade ==
    /\ pc = "masq"
    /\ \E ok \in Oks :
        /\ Outcome(ok)
        /\ IF ok
           THEN /\ NoRaise
                /\ uplink' = host0.default_iface
                /\ pc' = "ipt_add"
                /\ k' = 1
           ELSE /\ Raise(Exc("CantGuessInterface", 0))
                /\ uplink' = uplink
                /\ pc' = "iface_exit"
                /\ k' = k
    /\ UNCHANGED <<session, iters, nintr, ifaceVars, rules, unpackdir,
                   preseeder, dnsmasq, status, trace, scopes, lastop, host0,
                   logfile>>

\* call_iptables(...).__enter__ of the k-th rule: the add command, inside
\* the try whose finally issues the delete.
CallIptablesAdd ==
    /\ pc = "ipt_add"
    /\ \E ok \in Oks :
        /\ Outcome(ok)
        /\ rules' = IptablesAppend(rules, k, ok)
        /\ IF ok
           THEN /\ NoRaise
                /\ Log(Ev("enter", "rule", k))
                /\ IF k < NumRules
                   THEN pc' = "ipt_add" /\ k' = k + 1
                   ELSE pc' = "preseed" /\ k' = k
           ELSE /\ Raise(Exc("add", k))
                /\ Log(Ev("add_failed", "rule", k))
                /\ pc' = "ipt_del"
                /\ k' = k
    /\ UNCHANGED <<session, iters, nintr, ifaceVars, unpackdir, preseeder,
                   dnsmasq, status, loneVars>>

\* The finally clause of the k-th call_iptables: the delete command, issued
\* whether the scope ends normally, by an exception of the body or by the
\* failure of its own add.
CallIptablesDelete ==
    /\ pc = "ipt_del"
    /\ \E ok \in Oks :
        LET done == IptablesDeleteOk(rules, k, ok)
        IN  /\ Outcome(ok)
            /\ rules' = IptablesDelete(rules, k, ok)
            /\ Log(Ev("exit", "rule", k))
            /\ IF done THEN NoRaise ELSE Raise(Exc("del", k))
            /\ IF k > 1
               THEN pc' = "ipt_del" /\ k' = k - 1
               ELSE pc' = "iface_exit" /\ k' = k
    /\ UNCHANGED <<session, iters, nintr, ifaceVars, unpackdir, preseeder,
                   dnsmasq, status, loneVars>>

\* Preseeder(...).__enter__; Pxe.run enters it whether or not a preseed
\* file is configured.
PreseederOutcomes ==
    IF CanFail
    THEN {"ok", "bind_fail"} \cup (IF preseed_file THEN {"copy_fail"} ELSE {})
    ELSE {"ok"}

EnterPreseeder ==
    /\ pc = "preseed"
    /\ \E outcome \in PreseederOutcomes :
        /\ Outcome(outcome = "ok")
        /\ preseeder' = PreseederEnter(preseeder, outcome)
        /\ IF outcome = "ok"
           THEN /\ NoRaise
                /\ Log(Ev("enter", "http", 0))
                /\ pc' = "dnsmasq"
                /\ k' = k
           ELSE /\ Raise(Exc(outcome, 0))
                /\ UNCHANGED trace
                /\ pc' = "ipt_del"
                /\ k' = NumRules
    /\ UNCHANGED <<session, iters, nintr, ifaceVars, rules, unpackdir,
                   dnsmasq, status, loneVars>>

\* DnsMasq(...).__enter__
EnterDnsMasq ==
    /\ pc = "dnsmasq"
    /\ \E outcome \in (IF CanFail THEN DnsMasqEnterOutcomes ELSE {"ok"}) :
        /\ Outcome(outcome = "ok")
        /\ dnsmasq' = DnsMasqEnter(dnsmasq, outcome)
        /\ IF outcome = "ok"
           THEN /\ NoRaise
                /\ Log(Ev("enter", "dnsmasq", 0))
                /\ pc' = "loop"
           ELSE /\ Raise(Exc(outcome, 0))
                /\ UNCHANGED trace
                /\ pc' = "preseed_exit"
    /\ UNCHANGED <<session, iters, nintr, ifaceVars, rules, k, unpackdir,
                   preseeder, status, loneVars>>

\* `while dnsmasq.running:` -- the liveness check polls (and reaps) the child.
LoopCheck ==
    /\ pc = "loop"
    /\ dnsmasq' = DnsMasqRunningPoll(dnsmasq)
    /\ IF DnsMasqRunning(dnsmasq)
       THEN /\ iters < MaxIter
            /\ iters' = iters + 1
            /\ Log(Ev("iter", "loop", IF must_stop THEN 1 ELSE 0))
            /\ pc' = "read_logs"
       ELSE /\ iters' = iters
            /\ UNCHANGED trace
            /\ pc' = "final_read"
    /\ UNCHANGED <<exc, errors, session, nfail, nintr, ifaceVars, rules, k,
                   unpackdir, preseeder, status, loneVars>>

\* dnsmasq.read_logs() in the loop; reading the file may raise (the error
\* carries the iteration it was raised in).
LoopReadLogs ==
    /\ pc = "read_logs"
    /\ \E ok \in Oks :
        /\ Outcome(ok)
        /\ IF ok
           THEN NoRaise /\ pc' = "sleep"
           ELSE Raise(Exc("read_logs", iters)) /\ pc' = "dnsmasq_exit"
        /\ logfile' = IF ok THEN ReadLogs(logfile) ELSE logfile
    /\ UNCHANGED <<session, iters, nintr, ifaceVars, rules, k, unpackdir,
                   preseeder, dnsmasq, status, trace, scopes, lastop, host0,
                   uplink>>

\* A loop body that breaks whether or not must_stop is set.
LoopSleepAlwaysBreaks ==
    /\ pc = "sleep"
    /\ IF must_stop
       THEN /\ dnsmasq' = DnsMasqStop(dnsmasq)
            /\ Log(Ev("stop", "must_stop", 0))
       ELSE UNCHANGED <<dnsmasq, trace>>
    /\ pc' = "final_read"
    /\ UNCHANGED <<exc, errors, session, iters, nfail, nintr, ifaceVars,
                   rules, k, unpackdir, preseeder, status, loneVars>>

\* sleep(.1); if self.must_stop: dnsmasq.stop(); break
LoopSleep ==
    /\ pc = "sleep"
    /\ IF must_stop
       THEN /\ dnsmasq' = DnsMasqStop(dnsmasq)
            /\ Log(Ev("stop", "must_stop", 0))
            /\ pc' = "final_read"
       ELSE /\ UNCHANGED <<dnsmasq, trace>>
            /\ pc' = "loop"
    /\ UNCHANGED <<exc, errors, session, iters, nfail, nintr, ifaceVars,
                   rules, k, unpackdir, preseeder, status, loneVars>>

\* except KeyboardInterrupt: dnsmasq.stop()
ExceptKeyboardInterrupt ==
    /\ pc = "except_ki"
    /\ dnsmasq' = DnsMasqStop(dnsmasq)
    /\ Log(Ev("stop", "KeyboardInterrupt", 0))
    /\ pc' = "final_read"
    /\ UNCHANGED <<exc, errors, session, iters, nfail, nintr, ifaceVars,
                   rules, k, unpackdir, preseeder, status, loneVars>>

\* The read_logs() after the try statement ("Read the last logs").
FinalReadLogs ==
    /\ pc = "final_read"
    /\ \E ok \in Oks :
        /\ Outcome(ok)
        /\ IF ok THEN NoRaise ELSE Raise(Exc("read_logs", 0))
        /\ logfile' = IF ok THEN ReadLogs(logfile) ELSE logfile
    /\ Log(Ev("final_read", "dnsmasq", 0))
    /\ pc' = "dnsmasq_exit"
    /\ UNCHANGED <<session, iters, nintr, ifaceVars, rules, k, unpackdir,
                   preseeder, dnsmasq, status, scopes, lastop, host0,
                   uplink>>

\* DnsMasq.__exit__; it returns None, so an exception in flight goes on.
ExitDnsMasq ==
    /\ pc = "dnsmasq_exit"
    /\ \E ok \in Oks :
        /\ Outcome(ok)
        /\ dnsmasq' = DnsMasqExit(dnsmasq, ok)
        /\ IF ok THEN NoRaise ELSE Raise(Exc("workdir_cleanup", 0))
        /\ pc' = IF ok /\ exc = NoExc THEN "log_status" ELSE "preseed_exit"
    /\ Log(Ev("exit", "dnsmasq", 0))
    /\ UNCHANGED <<session, iters, nintr, ifaceVars, rules, k, unpackdir,
                   preseeder, status, loneVars>>

\* LOG.info("dnsmasq exited with status %d", dnsmasq.process.poll()),
\* reached only when the inner with statement ended without an exception.
LogStatus ==
    /\ pc = "log_status"
    /\ dnsmasq' = Poll(dnsmasq)
    /\ status' = Poll(dnsmasq).returncode
    /\ pc' = "preseed_exit"
    /\ UNCHANGED <<exc, errors, session, iters, nfail, nintr, ifaceVars,
                   rules, k, unpackdir, preseeder, trace, loneVars>>

\* Preseeder.__exit__
ExitPreseeder ==
    /\ pc = "preseed_exit"
    /\ \E ok \in Oks :
        /\ Outcome(ok)
        /\ preseeder' = PreseederExit(preseeder, ok)
        /\ IF ok THEN NoRaise ELSE Raise(Exc("preseed_cleanup", 0))
    /\ Log(Ev("exit", "http", 0))
    /\ pc' = "ipt_del"
    /\ k' = NumRules
    /\ UNCHANGED <<session, iters, nintr, ifaceVars, rules, unpackdir,
                   dnsmasq, status, loneVars>>

\* setup_iface(...).__exit__
ExitSetupIface ==
    /\ pc = "iface_exit"
    /\ \E ok \in Oks :
        LET r == SetupIfaceExit(ifaddrs, ServerAddr, address_exists,
                                exc # NoExc, ok)
        IN  /\ nfail' = IF r.failed THEN nfail + 1 ELSE nfail
            /\ ifaddrs' = r.addrs
            /\ IF r.issued THEN Log(Ev("exit", "iface", 0))
                           ELSE UNCHANGED trace
            /\ IF r.failed THEN Raise(Exc("addr_del", 0)) ELSE NoRaise
    /\ pc' = "unpack_exit"
    /\ UNCHANGED <<session, iters, nintr, ifup, address_exists, rules, k,
                   unpackdir, preseeder, dnsmasq, status, loneVars>>

\* distribution.unpack().__exit__: TemporaryDirectory removes the directory.
ExitUnpack ==
    /\ pc = "unpack_exit"
    /\ unpackdir' = "removed"
    /\ Log(Ev("exit", "unpack", 0))
    /\ pc' = "done"
    /\ UNCHANGED <<exc, errors, session, iters, nfail, nintr, ifaceVars,
                   rules, k, preseeder, dnsmasq, status, loneVars>>

\* ---------------------------------------------------------- the environment
\* The child exits on its own.
ChildExit ==
    /\ dnsmasq.child = "running"
    /\ \E st \in OwnExitStatus :
        dnsmasq' = [dnsmasq EXCEPT !.child = "exited", !.exitstatus = st]
    /\ UNCHANGED <<pc, exc, errors, session, iters, nfail, nintr, ifaceVars,
                   rules, k, unpackdir, preseeder, status, trace, loneVars>>

\* The external controller sets Pxe.must_stop while the monitoring loop
\* runs (the flag is read nowhere else, so an earlier write is seen by the
\* loop exactly as one made before its first iteration).
SetMustStop ==
    /\ pc \in {"loop", "read_logs", "sleep"}
    /\ ~must_stop
    /\ must_stop' = TRUE
    /\ UNCHANGED <<pc, exc, errors, preseed_file, masquerade_iface, iters,
                   nfail, nintr, ifaceVars, rules, k, unpackdir, preseeder,
                   dnsmasq, status, trace, loneVars>>

\* Where control goes when KeyboardInterrupt is raised in the main thread
\* before the statement at pc: into the except clause inside the try of the
\* monitoring loop, otherwise out through the exits of the scopes entered.
\* inTry tells, for an interrupt at a call_iptables entry, whether it
\* arrives once the generator is inside its try statement.
InterruptTarget(at, rule, inTry) ==
    CASE at = "iface" -> [pc |-> "unpack_exit", k |-> rule, caught |-> FALSE]
      [] at = "masq" -> [pc |-> "iface_exit", k |-> rule, caught |-> FALSE]
      [] at = "ipt_add" ->
            IF inTry THEN [pc |-> "ipt_del", k |-> rule, caught |-> FALSE]
            ELSE IF rule > 1
            THEN [pc |-> "ipt_del", k |-> rule - 1, caught |-> FALSE]
            ELSE [pc |-> "iface_exit", k |-> rule, caught |-> FALSE]
      [] at = "preseed" -> [pc |-> "ipt_del", k |-> NumRules, caught |-> FALSE]
      [] at = "dnsmasq" -> [pc |-> "preseed_exit", k |-> rule, caught |-> FALSE]
      [] at \in {"loop", "read_logs", "sleep"} ->
            [pc |-> "except_ki", k |-> rule, caught |-> TRUE]
      [] at = "final_read" ->
            [pc |-> "dnsmasq_exit", k |-> rule, caught |-> FALSE]

InterruptPoints == {"iface", "masq", "ipt_add", "preseed", "dnsmasq", "loop",
                    "read_logs", "sleep", "final_read"}

Interrupt ==
    /\ pc \in InterruptPoints
    /\ nintr < MaxInterrupt
    /\ nintr' = nintr + 1
    /\ \E inTry \in (IF pc = "ipt_add" THEN BOOLEAN ELSE {FALSE}) :
        LET t == InterruptTarget(pc, k, inTry)
        IN  /\ pc' = t.pc
            /\ k' = t.k
            /\ IF t.caught THEN NoRaise ELSE Raise(KeyboardInterrupt)
    /\ Log(Ev("interrupt", pc, 0))
    /\ UNCHANGED <<session, iters, nfail, ifaceVars, rules, unpackdir,
                   preseeder, dnsmasq, status, loneVars>>

Next ==
    \/ Unpack
    \/ SetupIface
    \/ Masquerade
    \/ CallIptablesAdd
    \/ EnterPreseeder
    \/ EnterDnsMasq
    \/ LoopCheck
    \/ LoopReadLogs
    \/ LoopSleep
    \/ ExceptKeyboardInterrupt
    \/ FinalReadLogs
    \/ ExitDnsMasq
    \/ LogStatus
    \/ ExitPreseeder
    \/ CallIptablesDelete
    \/ ExitSetupIface
    \/ ExitUnpack
    \/ ChildExit
    \/ SetMustStop
    \/ Interrupt

Spec == Init /\ [][Next]_vars

\* ------------------------------------------------- reading the event trace
RECURSIVE Reverse(_)
Reverse(q) == IF q = <<>> THEN <<>> ELSE Append(Reverse(Tail(q)), Head(q))

IsEnter(e) == e.ev = "enter"
IsExit(e) == e.ev = "exit"
Scope(e) == [what |-> e.what, k |-> e.k]
ScopesOf(q) == [i \in 1..Len(q) |-> Scope(q[i])]

Happened(e) == \E i \in 1..Len(trace) : trace[i] = e
Raised(site) == \E i \in 1..Len(errors) : errors[i].site = site

\* The scopes entered, in order, and the release actions issued, in order.
Entered == ScopesOf(SelectSeq(trace, IsEnter))
Released == ScopesOf(SelectSeq(trace, IsExit))

\* setup_iface has something to release only if its own add succeeded.
OwnsRelease(sc) == sc.what # "iface" \/ ~address_exists
Owed == SelectSeq(Entered, OwnsRelease)

\* What the session left on the host.
AddressLeft == ServerAddr \in ifaddrs /\ ServerAddr \notin host0.addrs
RuleLeft(r) == rules[r] > host0.rules[r]

\* ------------------------------------------------------------------ claims
\* C1: on every exit path of a session whose scopes were all entered, the
\* release actions are exactly the reverse of the acquisitions: dnsmasq,
\* HTTP server, rules 3, 2, 1, the interface address, the unpacked directory.
C1_ReverseRelease ==
    (pc = "done" /\ Happened(Ev("enter", "dnsmasq", 0)))
        => Released = Reverse(Owed)

\* C2: once run has returned or raised after entering setup_iface, no address
\* added by the session is left on the PXE interface and no rule appended by
\* it is left installed (unless the kernel refused the delete command itself).
C2_NothingLeft ==
    (pc = "done" /\ Happened(Ev("enter", "iface", 0))) =>
        /\ (~Raised("addr_del") => ~AddressLeft)
        /\ \A r \in Rules : Exc("del", r) \in {errors[i] : i \in 1..Len(errors)}
                            \/ ~RuleLeft(r)

AcquisitionFailures == {"CantGuessInterface", "add", "bind_fail", "copy_fail",
                        "mkdtemp_fail", "touch_fail", "spawn_fail",
                        "open_fail"}

\* C3: if acquiring a scope fails, no later scope is acquired and all that
\* was acquired before, the interface address included, is released before
\* run raises.
C3_FailedAcquisitionUnwinds ==
    (/\ pc = "done"
     /\ nfail = 1
     /\ errors # <<>>
     /\ Head(errors).site \in AcquisitionFailures)
        => /\ ~AddressLeft
           /\ \A r \in Rules : ~RuleLeft(r)
           /\ unpackdir = "removed"
           /\ preseeder.server # "serving"
           /\ (Head(errors).site \in {"CantGuessInterface", "add"}
                  => ~Happened(Ev("enter", "http", 0)))
           /\ ~Happened(Ev("enter", "dnsmasq", 0))

\* C4: a KeyboardInterrupt delivered anywhere after the first scope was
\* entered acts like must_stop: the child is stopped, every entered scope is
\* released in reverse order and run does not raise.
C4_InterruptIsStop ==
    (pc = "done" /\ nintr > 0 /\ nfail = 0)
        => /\ exc = NoExc
           /\ ~Raised("KeyboardInterrupt")
           /\ dnsmasq.child # "running"
           /\ Released = Reverse(Owed)
           /\ ~AddressLeft

AfterLoop == {"final_read", "log_status", "preseed_exit", "ipt_del",
              "iface_exit", "unpack_exit", "done"}

\* C5: when must_stop is seen by the monitoring loop, the loop leaves within
\* that iteration with the child stopped and waited on; and when run returns,
\* the child has been reaped, the HTTP thread joined, the three rules and the
\* session's address removed, and the status logged is the child's own.
C5_MustStopStopsAndReleases ==
    /\ pc = "loop" => ~Happened(Ev("iter", "loop", 1))
    /\ (Happened(Ev("iter", "loop", 1)) /\ pc \in AfterLoop)
           => (dnsmasq.child = "reaped" /\ dnsmasq.returncode # "None")
    /\ (pc = "done" /\ must_stop /\ nfail = 0 /\ nintr = 0) => exc = NoExc
    /\ (pc = "done" /\ must_stop /\ exc = NoExc)
           => /\ dnsmasq.child = "reaped"
              /\ dnsmasq.terms <= 1
              /\ preseeder.thread = "joined"
              /\ \A r \in Rules : ~RuleLeft(r)
              /\ ~AddressLeft
              /\ status \in OwnExitStatus \cup {TermStatus}
              /\ status = dnsmasq.exitstatus

C5_Witness ==
    /\ pc = "done"
    /\ exc = NoExc
    /\ Happened(Ev("stop", "must_stop", 0))
    /\ status = TermStatus
    /\ ServerAddr \notin host0.addrs
    /\ ServerAddr \notin ifaddrs

AfterFailedAdd(j) ==
    LET at == CHOOSE i \in 1..Len(trace) : trace[i] = Ev("add_failed", "rule", j)
    IN  SelectSeq(SubSeq(trace, at + 1, Len(trace)),
                  LAMBDA e : e.what = "rule")

\* C6: if the add of rule j fails, the only iptables commands issued after
\* it are the deletes of rules j-1 .. 1, in that order, and masquerade fails.
C6_FailedAddRollsBack ==
    \A j \in Rules :
        (Happened(Ev("add_failed", "rule", j))
            /\ pc \in {"iface_exit", "unpack_exit", "done"})
        => /\ AfterFailedAdd(j) = [i \in 1..(j - 1) |-> Ev("exit", "rule", j - i)]
           /\ exc # NoExc

TeardownFailures == {"workdir_cleanup", "preseed_cleanup", "del"}

\* C7: a failing release step does not stop the others: after the kernel
\* refused a teardown step of a fully entered session, the release of every
\* scope entered before it, down to the interface address, was still issued.
C7_TeardownGoesOn ==
    (/\ pc = "done"
     /\ Happened(Ev("enter", "dnsmasq", 0))
     /\ errors # <<>>
     /\ Head(errors).site \in TeardownFailures)
        => Released = Reverse(Owed)

\* C8: the exception that leaves run is the first one raised: the primary
\* failure, or the first teardown error when only teardown failed.
C8_FirstErrorSurfaces ==
    (pc = "done" /\ errors # <<>>) => exc = Head(errors)

\* The supervisor's scope has been left: DnsMasq.__exit__ has run.
DnsMasqTornDown == Happened(Ev("exit", "dnsmasq", 0))

\* C12: once the supervisor's scope has been left, however the body ended,
\* the log handle is closed and, unless the removal itself failed, the
\* working directory with the log file in it is gone; the handle was closed
\* with the child already waited on, and the directory was removed with the
\* handle already closed and the child already waited on.
C12_WorkdirAndLogRemoved ==
    DnsMasqTornDown =>
        /\ dnsmasq.logs = "closed"
        /\ dnsmasq.atclose = "reaped"
        /\ ~Raised("workdir_cleanup") =>
               /\ dnsmasq.workdir = "removed"
               /\ dnsmasq.atcleanup = [child |-> "reaped", logs |-> "closed"]

\* The body raised (the loop's read_logs failed) with the child running,
\* and the scope was left with everything of the launch gone.
C12_Witness ==
    /\ DnsMasqTornDown
    /\ Raised("read_logs")
    /\ dnsmasq.exitstatus = TermStatus
    /\ dnsmasq.workdir = "removed"
    /\ dnsmasq.logs = "closed"


\* C14: in every state in which the child is running, the server address is
\* on the PXE interface, every rule of the set is installed and, when a
\* preseed file is configured, the HTTP server is serving.
C14_ChildRunsInsideScopes ==
    dnsmasq.child = "running" =>
        /\ ServerAddr \in ifaddrs
        /\ \A r \in Rules : rules[r] > host0.rules[r]
        /\ preseed_file => preseeder.server = "serving"


\* C15: the HTTP server is bound and its thread started if and only if a
\* preseed file is configured: without one, no server is ever bound and no
\* thread ever started; with one, the server serves while dnsmasq's scope
\* is being entered or is held.
C15_HttpOnlyWithPreseed ==
    /\ ~preseed_file =>
           (preseeder.server = "None" /\ preseeder.thread = "None")
    /\ (preseed_file /\ pc \in {"dnsmasq", "loop", "read_logs", "sleep"}) =>
           (preseeder.server = "serving" /\ preseeder.thread = "started")


\* C16: rules are installed only if a masquerade interface is configured,
\* and the installed rules name that interface and no other.
C16_RulesNameConfiguredIface ==
    (\E r \in Rules : RuleLeft(r)) =>
        (masquerade_iface # "None" /\ uplink = masquerade_iface)


\* The monitoring loop was entered and has been left.
InLoop == {"loop", "read_logs", "sleep"}
LoopLeft == Happened(Ev("enter", "dnsmasq", 0)) /\ pc \notin InLoop

\* The ways out of the loop: the liveness check found the child gone (it
\* reaped a child that was never signalled), must_stop was seen, an
\* interrupt was caught inside the try, read_logs raised in an iteration.
ChildFoundGone == dnsmasq.child = "reaped" /\ dnsmasq.terms = 0
StopSeen == Happened(Ev("stop", "must_stop", 0))
InterruptCaught == \E p \in InLoop : Happened(Ev("interrupt", p, 0))
LoopReadRaised ==
    \E i \in 1..Len(errors) :
        errors[i].site = "read_logs" /\ errors[i].k >= 1

\* A child that exited on its own is never sent a termination signal, and
\* no iteration goes on after a liveness check that found the child gone.
OwnExitUnsignalled ==
    /\ dnsmasq.exitstatus \in OwnExitStatus => dnsmasq.terms = 0
    /\ pc \in {"read_logs", "sleep"} => dnsmasq.child # "reaped"

\* C20: the loop is left, and teardown begins, only because the child was
\* found not running, must_stop was seen or an interrupt was caught; never
\* while the child runs and no stop or interrupt has occurred.  A child
\* that exits on its own ends the loop at the next liveness check without
\* being sent a termination signal.
C20_ThreeWaysOut ==
    /\ LoopLeft => (ChildFoundGone \/ StopSeen \/ InterruptCaught)
    /\ OwnExitUnsignalled

\* C20, amended: the loop is also left, and teardown begins with the child
\* still running, when read_logs raises in an iteration; there is no other
\* way out.
C20_FourWaysOut ==
    /\ LoopLeft =>
           (ChildFoundGone \/ StopSeen \/ InterruptCaught \/ LoopReadRaised)
    /\ OwnExitUnsignalled

\* read_logs has raised in the loop and teardown is about to begin with
\* the child running, no stop requested and no interrupt delivered.
C20_Witness ==
    /\ pc = "dnsmasq_exit"
    /\ LoopReadRaised
    /\ dnsmasq.child = "running"
    /\ ~must_stop
    /\ nintr = 0


\* DnsMasq.__enter__ has raised after it created the working directory.
LaunchFailed ==
    \E site \in {"touch_fail", "spawn_fail", "open_fail"} : Raised(site)

\* C22: when DnsMasq.__enter__ has failed after creating the working
\* directory, no child is left running and the working directory, with the
\* log file in it, is gone.
C22_LaunchAllOrNothing ==
    LaunchFailed =>
        (dnsmasq.child # "running" /\ dnsmasq.workdir # "exists")


\* ------------------------------------------- setup_iface scopes, nested
\* A caller nests setup_iface scopes on one interface, for any addresses,
\* and leaves each normally or by an exception of its body.
pxeVars == <<pc, exc, errors, must_stop, preseed_file, masquerade_iface,
             iters, nfail, nintr, ifup, address_exists, rules, k, unpackdir,
             preseeder, uplink, logfile, status, trace, host0>>

IfaceInit ==
    /\ pc = "idle"
    /\ preseed_file = FALSE
    /\ masquerade_iface = "None"
    /\ ifaddrs \in SUBSET Addrs
    /\ ifup = FALSE
    /\ rules = [r \in Rules |-> 0]
    /\ host0 = [addrs |-> ifaddrs, rules |-> rules,
                default_iface |-> "eth0"]
    /\ Quiet

\* with setup_iface(a, prefixlen, iface): -- entry.  `added` records, from
\* the kernel's side, whether this scope's own addr add put the address there.
IfaceEnter ==
    /\ Len(scopes) < MaxDepth
    /\ \E a \in Addrs, outcome \in {"ok", "add_error", "up_error"} :
        LET r == SetupIfaceEnter(ifaddrs, a, outcome)
        IN  /\ ifaddrs' = r.addrs
            /\ scopes' = IF r.raised THEN scopes
                         ELSE Append(scopes,
                                     [addr |-> a,
                                      address_exists |-> r.address_exists,
                                      added |-> a \notin ifaddrs])
            /\ lastop' = [op |-> "enter", addr |-> a, outcome |-> outcome,
                          raised |-> r.raised, before |-> ifaddrs]
    /\ UNCHANGED <<pxeVars, dnsmasq>>

\* The innermost scope ends, normally or with an exception in flight.
IfaceExit ==
    /\ scopes # <<>>
    /\ \E raising \in BOOLEAN, delOk \in BOOLEAN :
        LET top == scopes[Len(scopes)]
            r == SetupIfaceExit(ifaddrs, top.addr, top.address_exists,
                                raising, delOk)
        IN  /\ ifaddrs' = r.addrs
            /\ scopes' = SubSeq(scopes, 1, Len(scopes) - 1)
            /\ lastop' = [op |-> "exit", addr |-> top.addr,
                          added |-> top.added, raising |-> raising,
                          delOk |-> delOk, issued |-> r.issued,
                          before |-> ifaddrs]
    /\ UNCHANGED <<pxeVars, dnsmasq>>

IfaceNext == IfaceEnter \/ IfaceExit

SpecIface == IfaceInit /\ [][IfaceNext]_vars

\* C9: entering setup_iface for an address the interface already has does
\* not fail and leaves the address in place; the exit of such a scope leaves
\* the interface as it is; a normal exit issues the delete if and only if
\* the scope's own add put the address there, and then the address is gone;
\* so with nested scopes for one address the inner exit keeps the address
\* and only the outer one removes it.
C9_SetupIfaceIdempotent ==
    /\ (lastop.op = "enter" /\ lastop.addr \in lastop.before
            /\ lastop.outcome = "ok")
           => /\ ~lastop.raised
              /\ ifaddrs = lastop.before
              /\ ~scopes[Len(scopes)].added
    /\ (lastop.op = "exit" /\ ~lastop.added) => ifaddrs = lastop.before
    /\ (lastop.op = "exit" /\ ~lastop.raising)
           => /\ lastop.issued <=> lastop.added
              /\ (lastop.added /\ lastop.delOk) => lastop.addr \notin ifaddrs
    /\ \A i \in 1..Len(scopes) : scopes[i].added => scopes[i].addr \in ifaddrs

\* The inner of two nested scopes for one address has just ended normally,
\* the outer one, which added the address, is still open.
C9_Witness ==
    /\ lastop.op = "exit"
    /\ ~lastop.raising
    /\ ~lastop.added
    /\ Len(scopes) = 1
    /\ scopes[1].addr = lastop.addr
    /\ scopes[1].added
    /\ lastop.addr \in ifaddrs

\* --------------------------------------------- one DnsMasq instance, alone
\* A caller applies the operations of DnsMasq to one instance in any order
\* while the child, once launched, may exit on its own.
hostVars == <<pc, exc, errors, must_stop, preseed_file, masquerade_iface,
              iters, nfail, nintr, ifaddrs, ifup, address_exists, rules, k,
              unpackdir, preseeder, uplink, logfile, status, trace, host0,
              scopes>>

restVars == <<exc, errors, must_stop, preseed_file, masquerade_iface, iters,
              nfail, nintr, ifaddrs, ifup, address_exists, rules, k,
              unpackdir, preseeder, uplink, logfile, status, trace, host0,
              scopes>>

readVars == <<exc, errors, must_stop, preseed_file, masquerade_iface, iters,
              nfail, nintr, ifaddrs, ifup, address_exists, rules, k,
              unpackdir, preseeder, uplink, status, trace, host0, scopes>>

DnsMasqAloneInit ==
    /\ pc = "idle"
    /\ preseed_file = FALSE
    /\ masquerade_iface = "None"
    /\ ifaddrs = {}
    /\ ifup = FALSE
    /\ rules = [r \in Rules |-> 0]
    /\ host0 = [addrs |-> ifaddrs, rules |-> rules,
                default_iface |-> "eth0"]
    /\ Quiet

\* with instance: -- __enter__
CallEnter ==
    /\ pc = "idle"
    /\ dnsmasq.launches < MaxLaunch
    /\ \E outcome \in DnsMasqEnterOutcomes :
        /\ dnsmasq' = DnsMasqEnter(dnsmasq, outcome)
        /\ lastop' = [op |-> "enter", raised |-> outcome # "ok"]
    /\ UNCHANGED hostVars

\* instance.__exit__(...): self.stop() raises AttributeError when process is
\* None, self.logs.close() when logs is None (stop has run by then).
CallExit ==
    /\ pc = "idle"
    /\ \E ok \in BOOLEAN :
        IF dnsmasq.process = "None"
        THEN /\ dnsmasq' = dnsmasq
             /\ lastop' = [op |-> "exit", raised |-> TRUE]
        ELSE IF dnsmasq.logs = "None"
        THEN /\ dnsmasq' = DnsMasqStop(dnsmasq)
             /\ lastop' = [op |-> "exit", raised |-> TRUE]
        ELSE /\ dnsmasq' = DnsMasqExit(dnsmasq, ok)
             /\ lastop' = [op |-> "exit", raised |-> ~ok]
    /\ UNCHANGED hostVars

\* instance.stop(), statement by statement, so that the child may exit on
\* its own between them.  First `if self.process.poll() is None:`.
CallStop ==
    /\ pc = "idle"
    /\ IF dnsmasq.process = "None"
       THEN /\ dnsmasq' = dnsmasq
            /\ lastop' = [op |-> "stop", raised |-> TRUE, sent |-> FALSE]
            /\ pc' = pc
       ELSE /\ dnsmasq' = Poll(dnsmasq)
            /\ IF Poll(dnsmasq).returncode = "None"
               THEN /\ pc' = "stop_terminate"
                    /\ lastop' = [op |-> "stop_poll", raised |-> FALSE]
               ELSE /\ pc' = pc
                    /\ lastop' = [op |-> "stop", raised |-> FALSE,
                                  sent |-> FALSE]
    /\ UNCHANGED restVars

\* self.process.terminate()
StopTerminate ==
    /\ pc = "stop_terminate"
    /\ dnsmasq' = PopenTerminate(dnsmasq)
    /\ lastop' = [op |-> "stop_terminate", raised |-> FALSE,
                  sent |-> dnsmasq'.terms # dnsmasq.terms]
    /\ pc' = "stop_wait"
    /\ UNCHANGED restVars

\* self.process.wait(): returns once the child has exited.
StopWait ==
    /\ pc = "stop_wait"
    /\ dnsmasq.child # "running"
    /\ dnsmasq' = PopenWait(dnsmasq)
    /\ lastop' = [op |-> "stop", raised |-> FALSE, sent |-> lastop.sent]
    /\ pc' = "idle"
    /\ UNCHANGED restVars

\* instance.running
CallRunning ==
    /\ pc = "idle"
    /\ dnsmasq' = DnsMasqRunningPoll(dnsmasq)
    /\ lastop' = [op |-> "running", raised |-> FALSE,
                  value |-> DnsMasqRunning(dnsmasq)]
    /\ UNCHANGED hostVars

\* instance.read_logs(): needs an open log handle.
CallReadLogs ==
    /\ pc = "idle"
    /\ dnsmasq' = dnsmasq
    /\ lastop' = [op |-> "read_logs", raised |-> dnsmasq.logs # "open"]
    /\ logfile' = IF dnsmasq.logs = "open" THEN ReadLogs(logfile)
                  ELSE logfile
    /\ UNCHANGED <<pc, readVars>>

\* The child of the instance exits on its own.
ChildExitAlone ==
    /\ dnsmasq.child = "running"
    /\ \E st \in OwnExitStatus :
        dnsmasq' = [dnsmasq EXCEPT !.child = "exited", !.exitstatus = st]
    /\ lastop' = [op |-> "child_exit", raised |-> FALSE, sent |-> FALSE]
    /\ UNCHANGED hostVars

DnsMasqAloneNext ==
    \/ CallEnter
    \/ CallExit
    \/ CallStop
    \/ StopTerminate
    \/ StopWait
    \/ CallRunning
    \/ CallReadLogs
    \/ ChildExitAlone

SpecDnsMasq == DnsMasqAloneInit /\ [][DnsMasqAloneNext]_vars

\* C10: once the child of a DnsMasq instance has exited, no operation on the
\* instance makes it run again or launches another child.
C10_StoppedIsFinal ==
    [][dnsmasq.child \in {"exited", "reaped"}
           => (dnsmasq'.child # "running"
               /\ dnsmasq'.launches = dnsmasq.launches)]_vars

LogsInit ==
    /\ pc = "idle"
    /\ preseed_file = FALSE
    /\ masquerade_iface = "None"
    /\ ifaddrs = {}
    /\ ifup = FALSE
    /\ rules = [r \in Rules |-> 0]
    /\ host0 = [addrs |-> ifaddrs, rules |-> rules,
                default_iface |-> "eth0"]
    /\ exc = NoExc
    /\ errors = <<>>
    /\ must_stop = FALSE
    /\ iters = 0
    /\ nfail = 0
    /\ nintr = 0
    /\ address_exists = FALSE
    /\ k = 0
    /\ unpackdir = "None"
    /\ preseeder = PreseederInit
    /\ dnsmasq = DnsMasqEnter(DnsMasqInit, "ok")
    /\ uplink = "None"
    /\ logfile = LogFileInit
    /\ status = "unset"
    /\ trace = <<>>
    /\ scopes = <<>>
    /\ lastop = [op |-> "enter", raised |-> FALSE]

\* The child appends a character to its log file (--log-facility).
ChildLog ==
    /\ dnsmasq.child = "running"
    /\ Len(logfile.text) < MaxLog
    /\ \E c \in LogChars :
        logfile' = [logfile EXCEPT !.text = Append(@, c)]
    /\ lastop' = [op |-> "child_log", raised |-> FALSE]
    /\ UNCHANGED <<pc, dnsmasq, readVars>>

LogsNext ==
    \/ ChildLog
    \/ CallReadLogs
    \/ ChildExitAlone

SpecLogs == LogsInit /\ [][LogsNext]_vars

\* The lines of text that end with a terminator.
Terminated(line) == line[Len(line)] = "\n"
CompleteLines(text) == SelectSeq(ReadLines(text), Terminated)

\* C13: the lines handed to LOG are the terminated lines of the file, each
\* once and in file order (stripped, blank ones left out); unterminated
\* trailing content is held back, so nothing else is ever forwarded, and
\* after a read_logs call every terminated line has been forwarded.
C13_OnlyCompleteLines ==
    LET want == StrippedNonEmpty(CompleteLines(logfile.text))
        got == logfile.forwarded
    IN  /\ Len(got) <= Len(want)
        /\ got = SubSeq(want, 1, Len(got))
        /\ (lastop.op = "read_logs" /\ ~lastop.raised) => got = want

\* ------------------------------------------ addresses and the command line
\* ipaddress.IPv4Network: a network address and a prefix length.
NumAddresses(n) == 2^(32 - n.prefixlen)
Broadcast(n) == n.address + NumAddresses(n) - 1

\* IPv4Network.hosts(): every address but the network's and the broadcast
\* one; both addresses of a /31.
IsHost(n, a) ==
    IF n.prefixlen = 31
    THEN a \in {n.address, n.address + 1}
    ELSE n.address < a /\ a < Broadcast(n)
NumHosts(n) == IF n.prefixlen = 31 THEN 2 ELSE NumAddresses(n) - 2

\* Pxe.server_address: next(self.pxe_net.hosts())
server_address(n) == IF n.prefixlen = 31 THEN n.address ELSE n.address + 1

\* A range that starts at the server address itself.
DhcpRangeFromServer(n, size) ==
    <<server_address(n), server_address(n) + size>>

\* Pxe.dhcp_range: (first_addr := server_address + 1),
\*                 first_addr + dhcp_range_size
dhcp_range(n, size) ==
    <<server_address(n) + 1, server_address(n) + 1 + size>>

\* str(int), digit by digit.
Digits == <<"0", "1", "2", "3", "4", "5", "6", "7", "8", "9">>
RECURSIVE Dec(_)
Dec(i) ==
    IF i < 10 THEN <<Digits[i + 1]>>
    ELSE Dec(i \div 10) \o <<Digits[(i % 10) + 1]>>

\* The i-th octet of an address, most significant first.
Octet(a, i) == (a \div 2^(8 * (4 - i))) % 256

\* A rendering with the least significant octet first.
DottedLittleEndian(a) ==
    Dec(Octet(a, 4)) \o <<".">> \o Dec(Octet(a, 3)) \o <<".">>
        \o Dec(Octet(a, 2)) \o <<".">> \o Dec(Octet(a, 1))

\* str(IPv4Address): dotted quad.
Dotted(a) ==
    Dec(Octet(a, 1)) \o <<".">> \o Dec(Octet(a, 2)) \o <<".">>
        \o Dec(Octet(a, 3)) \o <<".">> \o Dec(Octet(a, 4))

\* Option values by Python type; a str is the sequence of its characters.
Bool(b) == [type |-> "bool", v |-> b]
StrV(chars) == [type |-> "str", v |-> chars]
Addr(a) == [type |-> "IPv4Address", v |-> a]
Tuple(t) == [type |-> "tuple", v |-> t]
List(l) == [type |-> "list", v |-> l]

\* str(x)
Str(x) ==
    CASE x.type = "IPv4Address" -> Dotted(x.v)
      [] x.type = "bool" -> IF x.v THEN <<"T", "r", "u", "e">>
                            ELSE <<"F", "a", "l", "s", "e">>
      [] OTHER -> x.v

\* ','.join(map(str, value))
RECURSIVE Join(_)
Join(t) ==
    IF t = <<>> THEN <<>>
    ELSE IF Len(t) = 1 THEN Str(t[1])
    ELSE Str(t[1]) \o <<",">> \o Join(Tail(t))

\* A format_option whose tuple case gives one token per element.
FormatOptionSplitsTuples(value, switch) ==
    CASE value.type = "bool" -> IF value.v THEN <<switch>> ELSE <<>>
      [] value.type \in {"tuple", "list"} ->
             [i \in 1..Len(value.v) |-> switch \o <<"=">> \o Str(value.v[i])]
      [] OTHER -> <<switch \o <<"=">> \o Str(value)>>

\* DnsMasq.format_option, dispatched on the type of value: _format_bool,
\* _format_tuple, _format_list, and the single value default.
RECURSIVE format_option(_, _)
format_option(value, switch) ==
    CASE value.type = "bool" -> IF value.v THEN <<switch>> ELSE <<>>
      [] value.type = "tuple" -> <<switch \o <<"=">> \o Join(value.v)>>
      [] value.type = "list" ->
             IF value.v = <<>> THEN <<>>
             ELSE format_option(Head(value.v), switch)
                      \o format_option(List(Tail(value.v)), switch)
      [] OTHER -> <<switch \o <<"=">> \o Str(value)>>

\* f"--{name.replace('_', '-')}"
Switch(name) ==
    <<"-", "-">> \o [i \in 1..Len(name) |->
                        IF name[i] = "_" THEN "-" ELSE name[i]]

\* DnsMasq.formatted_options over the fields of the instance, in order.
RECURSIVE formatted_options(_)
formatted_options(fields) ==
    IF fields = <<>> THEN <<>>
    ELSE format_option(Head(fields).value, Switch(Head(fields).name))
             \o formatted_options(Tail(fields))

\* Preseeder.url
PreseederUrl(server) ==
    <<"h", "t", "t", "p", ":", "/", "/">> \o Dotted(server)
        \o <<":", "8", "0", "0", "0", "/", "p", "r", "e", "s", "e", "e",
           "d", ".", "c", "f", "g">>

Field(name, value) == [name |-> name, value |-> value]

\* The DnsMasq instance Pxe.run constructs, as asdict() lists its fields.
PxeDnsMasq(n, size, preseed) ==
    LET server == server_address(n)
        range == dhcp_range(n, size)
    IN  <<Field(<<"i", "n", "t", "e", "r", "f", "a", "c", "e">>,
                StrV(<<"e", "t", "h", "1">>)),
          Field(<<"t", "f", "t", "p", "_", "r", "o", "o", "t">>,
                StrV(<<"/", "t", "m", "p", "/", "p", "x", "e">>)),
          Field(<<"d", "h", "c", "p", "_", "b", "o", "o", "t">>,
                List(<<Tuple(<<StrV(<<"t", "a", "g", ":", "!", "i", "n",
                                    "s", "t", "a", "l", "l", "e", "r">>),
                               StrV(<<"p", "x", "e", "l", "i", "n", "u",
                                    "x", ".", "0">>),
                               StrV(<<"p", "x", "e", "s", "e", "r", "v",
                                    "e", "r">>),
                               StrV(Dotted(server))>>)>>
                     \o IF preseed
                        THEN <<Tuple(<<StrV(<<"t", "a", "g", ":", "i", "n",
                                            "s", "t", "a", "l", "l", "e",
                                            "r">>),
                                       StrV(PreseederUrl(server))>>)>>
                        ELSE <<>>)),
          Field(<<"d", "h", "c", "p", "_", "r", "a", "n", "g", "e">>,
                Tuple(<<Addr(range[1]), Addr(range[2]), StrV(<<"1", "h">>)>>)),
          Field(<<"l", "i", "s", "t", "e", "n", "_", "a", "d", "d", "r",
                "e", "s", "s">>,
                Addr(server)),
          Field(<<"p", "x", "e", "_", "s", "e", "r", "v", "i", "c", "e">>,
                Tuple(<<StrV(<<"x", "8", "6", "P", "C">>),
                        StrV(<<"\"", "I", "n", "s", "t", "a", "l", "l", " ",
                             "L", "i", "n", "u", "x", "\"">>),
                        StrV(<<"p", "x", "e", "l", "i", "n", "u", "x">>)>>)),
          Field(<<"k", "e", "e", "p", "_", "i", "n", "_", "f", "o", "r",
                "e", "g", "r", "o", "u", "n", "d">>,
                Bool(TRUE)),
          Field(<<"l", "o", "g", "_", "f", "a", "c", "i", "l", "i", "t",
                "y">>,
                StrV(<<"/", "t", "m", "p", "/", "d", "/", "d", "n", "s",
                     "m", "a", "s", "q", ".", "l", "o", "g">>)),
          Field(<<"e", "n", "a", "b", "l", "e", "_", "t", "f", "t", "p">>,
                Bool(TRUE)),
          Field(<<"n", "o", "_", "h", "o", "s", "t", "s">>, Bool(TRUE)),
          Field(<<"b", "i", "n", "d", "_", "i", "n", "t", "e", "r", "f",
                "a", "c", "e", "s">>,
                Bool(TRUE)),
          Field(<<"t", "f", "t", "p", "_", "n", "o", "_", "b", "l", "o",
                "c", "k", "s", "i", "z", "e">>,
                Bool(TRUE)),
          Field(<<"l", "o", "g", "_", "d", "h", "c", "p">>, Bool(TRUE)),
          Field(<<"d", "h", "c", "p", "_", "v", "e", "n", "d", "o", "r",
                "c", "l", "a", "s", "s">>,
                StrV(<<"s", "e", "t", ":", "i", "n", "s", "t", "a", "l",
                     "l", "e", "r", ",", "d", "-", "i">>))>>

\* cmdline = (DNSMASQ, "-C", "/dev/null", *self.formatted_options)
Cmdline(fields) ==
    <<<<"d", "n", "s", "m", "a", "s", "q">>, <<"-", "C">>,
      <<"/", "d", "e", "v", "/", "n", "u", "l", "l">>>> \o formatted_options(fields)

\* ------------------------------------- Pxe's addresses and command line
\* The variables of Pxe.run's scopes, unused while only Pxe's properties
\* and DnsMasq's formatting are exercised.
Idle ==
    /\ pc = "idle"
    /\ masquerade_iface = "None"
    /\ ifaddrs = {}
    /\ ifup = FALSE
    /\ rules = [r \in Rules |-> 0]
    /\ host0 = [addrs |-> ifaddrs, rules |-> rules,
                default_iface |-> "eth0"]
    /\ exc = NoExc
    /\ errors = <<>>
    /\ must_stop = FALSE
    /\ iters = 0
    /\ nfail = 0
    /\ nintr = 0
    /\ address_exists = FALSE
    /\ k = 0
    /\ unpackdir = "None"
    /\ preseeder = PreseederInit
    /\ dnsmasq = DnsMasqInit
    /\ uplink = "None"
    /\ logfile = LogFileInit
    /\ status = "unset"
    /\ trace = <<>>
    /\ scopes = <<>>

idleVars == <<pc, exc, errors, must_stop, preseed_file, masquerade_iface,
              iters, nfail, nintr, ifaddrs, ifup, address_exists, rules, k,
              unpackdir, preseeder, dnsmasq, uplink, logfile, status, trace,
              host0, scopes>>

\* Networks inside 10.94.0.0/16 (the command line's default), with the
\* prefix lengths that leave from two to 65534 hosts.
BaseAddress == 10 * 2^24 + 94 * 2^16
PrefixLens == {16, 24, 27, 28, 29, 30, 31}
Nets ==
    {net \in [address : {BaseAddress + off : off \in {0, 32, 256, 768}},
              prefixlen : PrefixLens] :
        net.address % NumAddresses(net) = 0}

\* Pxe(pxe_net = n, dhcp_range_size = size, preseed_file = ...)
CmdlineInit ==
    /\ Idle
    /\ preseed_file \in BOOLEAN
    /\ \E n \in Nets, size \in 0..MaxRangeSize :
        lastop = [op |-> "Pxe", pxe_net |-> n, dhcp_range_size |-> size,
                  value |-> "None"]

\* pxe.server_address
GetServerAddress ==
    /\ lastop' = [lastop EXCEPT !.op = "server_address",
                                !.value = server_address(lastop.pxe_net)]
    /\ UNCHANGED idleVars

\* pxe.dhcp_range
GetDhcpRange ==
    /\ lastop' = [lastop EXCEPT !.op = "dhcp_range",
                                !.value = dhcp_range(lastop.pxe_net,
                                                     lastop.dhcp_range_size)]
    /\ UNCHANGED idleVars

\* The command line DnsMasq.__enter__ builds for the instance of Pxe.run.
BuildCmdline ==
    /\ lastop' = [lastop EXCEPT
                      !.op = "cmdline",
                      !.value = Cmdline(PxeDnsMasq(lastop.pxe_net,
                                                   lastop.dhcp_range_size,
                                                   preseed_file))]
    /\ UNCHANGED idleVars

CmdlineNext ==
    \/ GetServerAddress
    \/ GetDhcpRange
    \/ BuildCmdline

SpecCmdline == CmdlineInit /\ [][CmdlineNext]_vars

\* The network has room for the server and a client range of this size.
HasRoom(n, size) == NumHosts(n) >= size + 2

\* C17: for a network with at least dhcp_range_size + 2 usable hosts, the
\* server address is the first usable host, and the client range starts
\* right after it, lies within the usable hosts, leaves the server address
\* out and holds exactly dhcp_range_size addresses, both bounds counted.
C17_RangeHoldsSizeAddresses ==
    LET n == lastop.pxe_net
        size == lastop.dhcp_range_size
    IN  /\ (lastop.op = "server_address" /\ HasRoom(n, size)) =>
               (IsHost(n, lastop.value) /\ ~IsHost(n, lastop.value - 1))
        /\ (lastop.op = "dhcp_range" /\ HasRoom(n, size)) =>
               LET low == lastop.value[1]
                   high == lastop.value[2]
               IN  /\ low = server_address(n) + 1
                   /\ \A a \in low..high :
                          IsHost(n, a) /\ a # server_address(n)
                   /\ high - low + 1 = size

\* The addresses of the range pxe.dhcp_range has returned.
RangeAddrs == lastop.value[1]..lastop.value[2]
RangeAsked == lastop.op = "dhcp_range"
                  /\ HasRoom(lastop.pxe_net, lastop.dhcp_range_size)

StartsWith(token, prefix) ==
    /\ Len(token) >= Len(prefix)
    /\ SubSeq(token, 1, Len(prefix)) = prefix
Tokens(cmd, prefix) ==
    {i \in 1..Len(cmd) : StartsWith(cmd[i], prefix)}

OptionNames ==
    {<<"i", "n", "t", "e", "r", "f", "a", "c", "e">>,
     <<"n", "o", "_", "h", "o", "s", "t", "s">>,
     <<"d", "h", "c", "p", "_", "r", "a", "n", "g", "e">>,
     <<"t", "f", "t", "p", "_", "n", "o", "_", "b", "l", "o", "c", "k", "s",
     "i", "z", "e">>}

SeqsUpTo(S, n) == UNION {[1..m -> S] : m \in 0..n}

Bools == {Bool(TRUE), Bool(FALSE)}
Scalars == {StrV(<<"e", "t", "h", "1">>), StrV(<<"1", "h">>)}
Tuples == {Tuple(t) : t \in SeqsUpTo(Scalars, MaxTuple)}
Lists == {List(l) : l \in SeqsUpTo(Bools \cup Scalars \cup Tuples, MaxList)}
OptionValues == Bools \cup Scalars \cup Tuples \cup Lists

FormatInit ==
    /\ Idle
    /\ preseed_file = FALSE
    /\ \E name \in OptionNames, value \in OptionValues :
        lastop = [op |-> "option", name |-> name, value |-> value,
                  tokens |-> <<>>]

\* self.format_option(value, f"--{name.replace('_', '-')}")
CallFormatOption ==
    /\ lastop.op = "option"
    /\ lastop' = [lastop EXCEPT
                      !.op = "format_option",
                      !.tokens = format_option(lastop.value,
                                               Switch(lastop.name))]
    /\ UNCHANGED idleVars

SpecFormat == FormatInit /\ [][CallFormatOption]_vars

\* The switch of an option name: two dashes, then the name with a dash in
\* the place of every underscore.
IsSwitchOf(sw, name) ==
    /\ Len(sw) = Len(name) + 2
    /\ sw[1] = "-" /\ sw[2] = "-"
    /\ \A i \in 1..Len(name) :
           sw[i + 2] = IF name[i] = "_" THEN "-" ELSE name[i]

\* The values of a tuple, comma separated.
RECURSIVE CommaSeparated(_)
CommaSeparated(t) ==
    IF t = <<>> THEN <<>>
    ELSE IF Len(t) = 1 THEN t[1].v
    ELSE CommaSeparated(SubSeq(t, 1, Len(t) - 1)) \o <<",">> \o t[Len(t)].v

\* The one token of a scalar or a tuple.
IsTokenOf(token, value, sw) ==
    /\ StartsWith(token, sw \o <<"=">>)
    /\ SubSeq(token, Len(sw) + 2, Len(token)) =
           IF value.type = "tuple" THEN CommaSeparated(value.v) ELSE value.v

\* How many tokens an element of a list gives, and how many come before
\* those of the i-th element.
TokenCount(value) == IF value = Bool(FALSE) THEN 0 ELSE 1
RECURSIVE TokensBefore(_, _)
TokensBefore(l, i) ==
    IF i = 1 THEN 0 ELSE TokensBefore(l, i - 1) + TokenCount(l[i - 1])

IsTokensOf(tokens, value, sw) ==
    CASE value.type = "bool" ->
             tokens = IF value.v THEN <<sw>> ELSE <<>>
      [] value.type = "list" ->
             /\ Len(tokens) = TokensBefore(value.v, Len(value.v) + 1)
             /\ \A i \in 1..Len(value.v) :
                    LET e == value.v[i]
                        token == tokens[TokensBefore(value.v, i) + 1]
                    IN  CASE e = Bool(FALSE) -> TRUE
                          [] e = Bool(TRUE) -> token = sw
                          [] OTHER -> IsTokenOf(token, e, sw)
      [] OTHER ->
             /\ Len(tokens) = 1
             /\ IsTokenOf(tokens[1], value, sw)

\* C18: a true boolean gives the bare flag and a false one nothing; a
\* scalar gives the one token --name=value; a tuple the one token
\* --name=v1,v2,v3; a list the tokens of its elements one after the other,
\* in the order of the list; and the name has dashes for its underscores.
C18_FormatOptionByType ==
    lastop.op = "format_option" =>
        \E sw \in {Switch(lastop.name)} :
            /\ IsSwitchOf(sw, lastop.name)
            /\ IsTokensOf(lastop.tokens, lastop.value, sw)

\* A list that holds a false flag and a tuple of two values has been
\* formatted under a name with underscores: one token.
C18_Witness ==
    /\ lastop.op = "format_option"
    /\ lastop.name = <<"t", "f", "t", "p", "_", "n", "o", "_", "b", "l",
                     "o", "c", "k", "s", "i", "z", "e">>
    /\ lastop.value.type = "list"
    /\ Len(lastop.value.v) = 2
    /\ lastop.value.v[1] = Bool(FALSE)
    /\ lastop.value.v[2].type = "tuple"
    /\ Len(lastop.value.v[2].v) = 2
    /\ Len(lastop.tokens) = 1

\* ---------------------------------- the monitoring loop and the child's log
\* Pxe.run from the moment every scope is entered and dnsmasq launched, to
\* the end of the inner with statement, while the child writes its log.
LoopInit ==
    /\ pc = "loop"
    /\ preseed_file = FALSE
    /\ masquerade_iface = "eth0"
    /\ host0 = [addrs |-> {}, rules |-> [r \in Rules |-> 0],
                default_iface |-> "eth0"]
    /\ ifaddrs = {ServerAddr}
    /\ ifup = TRUE
    /\ address_exists = FALSE
    /\ rules = [r \in Rules |-> 1]
    /\ k = NumRules
    /\ uplink = "eth0"
    /\ unpackdir = "exists"
    /\ preseeder = PreseederEnter(PreseederInit, "ok")
    /\ dnsmasq = DnsMasqEnter(DnsMasqInit, "ok")
    /\ logfile = LogFileInit
    /\ exc = NoExc
    /\ errors = <<>>
    /\ must_stop = FALSE
    /\ iters = 0
    /\ nfail = 0
    /\ nintr = 0
    /\ status = "unset"
    /\ trace = <<Ev("enter", "unpack", 0), Ev("enter", "iface", 0)>>
                   \o [r \in Rules |-> Ev("enter", "rule", r)]
                   \o <<Ev("enter", "http", 0), Ev("enter", "dnsmasq", 0)>>
    /\ scopes = <<>>
    /\ lastop = [op |-> "none"]

\* The child appends a character to its log file while Pxe.run goes on.
RunChildLog ==
    /\ dnsmasq.child = "running"
    /\ Len(logfile.text) < MaxRunLog
    /\ \E c \in LogChars :
        logfile' = [logfile EXCEPT !.text = Append(@, c)]
    /\ UNCHANGED <<pc, exc, errors, session, iters, nfail, nintr, ifaceVars,
                   rules, k, unpackdir, preseeder, dnsmasq, status, trace,
                   scopes, lastop, host0, uplink>>

LoopNext ==
    \/ LoopCheck
    \/ LoopReadLogs
    \/ LoopSleep
    \/ ExceptKeyboardInterrupt
    \/ FinalReadLogs
    \/ ExitDnsMasq
    \/ LogStatus
    \/ ChildExit
    \/ RunChildLog
    \/ SetMustStop
    \/ Interrupt

SpecLoop == LoopInit /\ [][LoopNext]_vars

\* The inner with statement has ended without an exception and the status
\* has been logged: nothing after it touches the log.
InnerDone == pc = "preseed_exit" /\ exc = NoExc /\ status # "unset"
FinalReads == Len(SelectSeq(trace, LAMBDA e : e.ev = "final_read"))

\* C21: however the loop ended, the one further read_logs call happens with
\* the child exited and waited on and the handle still open, and once the
\* inner with statement is over exactly one such call has happened and the
\* lines handed to LOG are the lines of the log file.
C21_FinalReadForwardsAll ==
    /\ pc = "final_read" =>
           (dnsmasq.child = "reaped" /\ dnsmasq.logs = "open"
                /\ FinalReads = 0)
    /\ InnerDone =>
           /\ FinalReads = 1
           /\ logfile.forwarded = StrippedNonEmpty(ReadLines(logfile.text))

====
